---- MODULE Spec2Model ----
(***************************************************************************)
(* Model of the scoring and ranking core of cryptoMonitor (src/monitor.js): *)
(* BitcoinDominanceAnalyzer and AdvancedCryptoAnalyzer, and of the          *)
(* watchlist of CryptoMonitor (src/unnamed/part_002).                       *)
(*                                                                          *)
(* Numbers.  JavaScript numbers are modelled in decimal fixed point with    *)
(* three fractional digits (1.2 is 1200), extended with the IEEE special    *)
(* values NaN, +Infinity and -Infinity, which the code can produce from a   *)
(* zero market cap or an empty change series.  Money amounts (market cap,   *)
(* 24h volume) are counted in millions of USD.                              *)
(***************************************************************************)
EXTENDS Integers, Sequences, FiniteSets, TLC

VARIABLES
    dominance,      \* upstream: the BTC dominance the global-metrics API reports now
    coinbaseTokens, \* this.coinbaseTokens
    pc,             \* startAnalyzer: where the menu loop / the running scan is
    listing,        \* scanTopOpportunities: response.data.data, the listed symbols
    idx,            \* scanTopOpportunities: index of the coin the for-loop is at
    opportunities,  \* scanTopOpportunities: const opportunities = []
    logged,         \* symbols the scan passed to this.log(`Error analizando ...`)
    settled,        \* history: how analyzeToken settled for each coin of the scan
    result,         \* what scanTopOpportunities resolved with, once pc = "done"
    domFetches,     \* history: getCurrentDominance requests issued by the operation
    tok,            \* the analyzeToken call in flight and its two concurrent requests
    op,             \* pure-function harness: the function applied last
    input,          \* pure-function harness: its argument
    output,         \* pure-function harness: its return value
    watchlist,      \* CryptoMonitor: this.watchlist, the entries in insertion order
    adding,         \* CryptoMonitor: the addToWatchlist call and how it ended
    monitor         \* CryptoMonitor: where monitorPrices is in its round

vars == <<dominance, coinbaseTokens, pc, listing, idx, opportunities, logged, settled,
          result, domFetches, tok, op, input, output, watchlist, adding, monitor>>

watchVars == <<watchlist, adding, monitor>>

scanVars == <<listing, idx, opportunities, logged, settled, result>>

-----------------------------------------------------------------------------
(* Fixed point and the JavaScript number operations the code uses.          *)

Unit == 10 * 10 * 10

\* Subdivisions of one percentage point in the dominance values explored.
DomGrain == 2
\* Subdivisions of [0,1] in the metric scores explored.
ScoreGrain == 2
\* Longest listing the listings request returns.
MaxListing == 3

\* Longest series of percent changes given to the momentum and volatility
\* calculations (performBaseAnalysis passes at most the four it reads).
MaxSeries == 3
\* Subdivisions of a hundredth in the volume ratios explored.
RatioGrain == 2

Fin(v) == [t |-> "fin", v |-> v]
NaN == [t |-> "nan", v |-> 0]
PosInf == [t |-> "inf", v |-> 1]
NegInf == [t |-> "inf", v |-> -1]

IsFin(a) == a.t = "fin"
IsNaN(a) == a.t = "nan"

\* a < b, a > b, a >= b on JS numbers: every comparison with NaN is false.
JsLt(a, b) ==
    IF IsNaN(a) \/ IsNaN(b) THEN FALSE
    ELSE IF IsFin(a) /\ IsFin(b) THEN a.v < b.v
    ELSE IF IsFin(a) THEN b.v = 1
    ELSE IF IsFin(b) THEN a.v = -1
    ELSE a.v < b.v

JsGt(a, b) == JsLt(b, a)

JsGe(a, b) == IF IsNaN(a) \/ IsNaN(b) THEN FALSE ELSE ~JsLt(a, b)

\* Math.min / Math.max: NaN if either argument is NaN.
MathMin(a, b) ==
    IF IsNaN(a) \/ IsNaN(b) THEN NaN ELSE IF JsLt(b, a) THEN b ELSE a

MathMax(a, b) ==
    IF IsNaN(a) \/ IsNaN(b) THEN NaN ELSE IF JsLt(a, b) THEN b ELSE a

JsNeg(a) == IF IsFin(a) THEN Fin(-a.v) ELSE IF IsNaN(a) THEN NaN ELSE [a EXCEPT !.v = -a.v]

JsAdd(a, b) ==
    IF IsNaN(a) \/ IsNaN(b) THEN NaN
    ELSE IF IsFin(a) /\ IsFin(b) THEN Fin(a.v + b.v)
    ELSE IF IsFin(a) THEN b
    ELSE IF IsFin(b) THEN a
    ELSE IF a.v = b.v THEN a ELSE NaN

JsSub(a, b) == JsAdd(a, JsNeg(b))

\* a * (num/den) for a rational literal of the code such as 0.2 = 20/100.
\* num = 0 is the literal 0, for which Infinity * 0 is NaN.
JsScale(a, num, den) ==
    IF IsNaN(a) THEN NaN
    ELSE IF IsFin(a) THEN Fin((a.v * num) \div den)
    ELSE IF num = 0 THEN NaN
    ELSE IF num > 0 THEN a ELSE JsNeg(a)

\* a / b for finite fixed-point operands, with the IEEE results for b = 0.
JsDiv(a, b) ==
    IF IsNaN(a) \/ IsNaN(b) THEN NaN
    ELSE IF IsFin(a) /\ IsFin(b) THEN
        IF b.v > 0 THEN Fin((a.v \div b.v) * Unit + ((a.v % b.v) * Unit) \div b.v)
        ELSE IF b.v < 0
             THEN Fin(((0 - a.v) \div (0 - b.v)) * Unit
                        + (((0 - a.v) % (0 - b.v)) * Unit) \div (0 - b.v))
        ELSE IF a.v = 0 THEN NaN
        ELSE IF a.v > 0 THEN PosInf ELSE NegInf
    ELSE IF IsFin(b) THEN (IF b.v >= 0 THEN a ELSE JsNeg(a))
    ELSE IF IsFin(a) THEN Fin(0)
    ELSE NaN

\* 1000 * log10(n) for n = 1..51, rounded.
Log10Tab ==
    << 0, 301, 477, 602, 699, 778, 845, 903, 954, 1000,
       1041, 1079, 1114, 1146, 1176, 1204, 1230, 1255, 1279, 1301,
       1322, 1342, 1362, 1380, 1398, 1415, 1431, 1447, 1462, 1477,
       1491, 1505, 1519, 1531, 1544, 1556, 1568, 1580, 1591, 1602,
       1613, 1623, 1633, 1643, 1653, 1663, 1672, 1681, 1690, 1699, 1708 >>

\* log10 of a positive whole number n: exact (to the table's rounding) for
\* n = m * 10^k with m <= 51, the shape of every amount explored.
RECURSIVE Log10Int(_)
Log10Int(n) ==
    IF n <= Len(Log10Tab) THEN Log10Tab[n] ELSE Unit + Log10Int(n \div 10)

\* Math.log10 of a fixed-point value x >= 1, interpolating the table
\* between whole numbers; log10(0) = -Infinity, log10(x < 0) = NaN.
MathLog10(a) ==
    IF IsNaN(a) THEN NaN
    ELSE IF ~IsFin(a) THEN (IF a.v = 1 THEN PosInf ELSE NaN)
    ELSE IF a.v < 0 THEN NaN
    ELSE IF a.v = 0 THEN NegInf
    ELSE LET n == a.v \div Unit
             f == a.v % Unit
         IN  IF n = 0 THEN Fin(-Log10Int(Unit \div a.v))
             ELSE IF f = 0 THEN Fin(Log10Int(n))
             ELSE Fin(Log10Int(n) + ((Log10Int(n + 1) - Log10Int(n)) * f) \div Unit)

-----------------------------------------------------------------------------
(* BitcoinDominanceAnalyzer                                                 *)

\* this.thresholds.DOMINANCE
HIGH == 60
MEDIUM == 45
LOW == 35

\* this.cyclePhases
BTC_DOMINANCE == "btc_dominance"
ALTCOIN_SEASON == "altcoin_season"
TRANSITION == "transition"
ACCUMULATION == "accumulation"

\* The third rule compares with <= instead of <.
determineCyclePhase_InclusiveMedium(d) ==
    IF d >= HIGH * Unit THEN [name |-> BTC_DOMINANCE, strength |-> "high"]
    ELSE IF d <= LOW * Unit THEN [name |-> ALTCOIN_SEASON, strength |-> "high"]
    ELSE IF d <= MEDIUM * Unit THEN [name |-> TRANSITION, strength |-> "medium"]
    ELSE [name |-> ACCUMULATION, strength |-> "medium"]

determineCyclePhase(d) ==
    IF d >= HIGH * Unit THEN [name |-> BTC_DOMINANCE, strength |-> "high"]
    ELSE IF d <= LOW * Unit THEN [name |-> ALTCOIN_SEASON, strength |-> "high"]
    ELSE IF d < MEDIUM * Unit THEN [name |-> TRANSITION, strength |-> "medium"]
    ELSE [name |-> ACCUMULATION, strength |-> "medium"]

\* The BTC impact raised only above HIGH, not at it.
calculateBTCImpact_StrictHigh(d) ==
    IF d > HIGH * Unit THEN 1200
    ELSE IF d <= LOW * Unit THEN 800
    ELSE 1000

calculateBTCImpact(d) ==
    IF d >= HIGH * Unit THEN 1200
    ELSE IF d <= LOW * Unit THEN 800
    ELSE 1000

\* The altcoin impact is lowered above HIGH but never raised below LOW.
calculateAltcoinImpact_FixedLow(d) ==
    IF d >= HIGH * Unit THEN 800 ELSE 1000

calculateAltcoinImpact(d) == 2 * Unit - calculateBTCImpact(d)

\* The impacts moved only strictly below LOW.
assessMarketImpact_StrictLow(d) ==
    LET btcImpact == IF d >= HIGH * Unit THEN 1200
                     ELSE IF d < LOW * Unit THEN 800
                     ELSE 1000
    IN  [btcImpact |-> btcImpact, altcoinImpact |-> 2 * Unit - btcImpact]

assessMarketImpact(d) ==
    [btcImpact |-> calculateBTCImpact(d), altcoinImpact |-> calculateAltcoinImpact(d)]

\* The switch without the TRANSITION case: it falls to the default.
generateRecommendations_NoTransitionCase(d) ==
    LET phase == determineCyclePhase(d)
    IN  IF phase.name = BTC_DOMINANCE THEN <<[type |-> "BTC_FOCUS", confidence |-> "Alta"]>>
        ELSE IF phase.name = ALTCOIN_SEASON THEN <<[type |-> "ALT_FOCUS", confidence |-> "Alta"]>>
        ELSE <<[type |-> "CONSERVATIVE", confidence |-> "Media"]>>

generateRecommendations(d) ==
    LET phase == determineCyclePhase(d)
    IN  IF phase.name = BTC_DOMINANCE THEN <<[type |-> "BTC_FOCUS", confidence |-> "Alta"]>>
        ELSE IF phase.name = ALTCOIN_SEASON THEN <<[type |-> "ALT_FOCUS", confidence |-> "Alta"]>>
        ELSE IF phase.name = TRANSITION THEN <<[type |-> "MIXED", confidence |-> "Media"]>>
        ELSE <<[type |-> "CONSERVATIVE", confidence |-> "Media"]>>

\* The value analyzeMarketCycle resolves with when getCurrentDominance gave d.
MarketCycle(d) ==
    [currentDominance |-> d,
     phase |-> determineCyclePhase(d),
     impact |-> assessMarketImpact(d),
     recommendations |-> generateRecommendations(d)]

\* The dominance readings explored: [0, 100] in steps of 1/DomGrain.
Dominances == {(k * Unit) \div DomGrain : k \in 0..(100 * DomGrain)}

-----------------------------------------------------------------------------
(* AdvancedCryptoAnalyzer: metric calculators                               *)

\* this.constants.MARKET_SEGMENTS, in millions of USD
MICRO_CAP == 50
SMALL_CAP == 250
MID_CAP == 1000
LARGE_CAP == 10000

\* this.constants.VOLATILITY_THRESHOLDS, in percent
VOLATILITY_MEDIUM == 15
VOLATILITY_HIGH == 25

\* this.constants.VOLUME_RATIOS, in thousandths
HEALTHY == 150
STRONG == 300
EXCEPTIONAL == 500

\* a * b without forming the full product of two fixed-point numerals.
JsMul(a, b) ==
    IF IsNaN(a) \/ IsNaN(b) THEN NaN
    ELSE IF IsFin(a) /\ IsFin(b) THEN
        Fin((a.v \div Unit) * b.v + ((a.v % Unit) * b.v) \div Unit)
    ELSE IF (IsFin(a) /\ a.v = 0) \/ (IsFin(b) /\ b.v = 0) THEN NaN
    ELSE IF (a.v > 0) = (b.v > 0) THEN PosInf ELSE NegInf

\* r * r <= x for fixed-point r and x, exactly: the fraction of the product
\* is rounded up before the comparison, so that only 0 is a root of 0.
SquareAtMost(r, x) ==
    (r \div Unit) * r + ((r % Unit) * r + Unit - 1) \div Unit <= x

\* The largest r in lo..hi with r * r <= x (all fixed point), by bisection.
RECURSIVE SqrtSearch(_, _, _)
SqrtSearch(lo, hi, x) ==
    IF lo >= hi THEN lo
    ELSE LET mid == (lo + hi + 1) \div 2
         IN  IF SquareAtMost(mid, x)
             THEN SqrtSearch(mid, hi, x)
             ELSE SqrtSearch(lo, mid - 1, x)

MathSqrt(a) ==
    IF IsNaN(a) THEN NaN
    ELSE IF ~IsFin(a) THEN (IF a.v = 1 THEN PosInf ELSE NaN)
    ELSE IF a.v < 0 THEN NaN
    ELSE Fin(SqrtSearch(0, 100 * Unit, a.v))

\* volume_24h / market_cap for two amounts in millions of USD.
MoneyRatio(volume, cap) ==
    IF cap # 0 THEN Fin((volume * Unit) \div cap)
    ELSE IF volume = 0 THEN NaN
    ELSE IF volume > 0 THEN PosInf ELSE NegInf

\* Math.log10(1e11 / marketCap) for a market cap in millions of USD.
Log10CapRatio(cap) ==
    IF cap = 0 THEN PosInf
    ELSE IF cap < 0 THEN NaN
    ELSE Fin(5 * Unit - Log10Int(cap))

\* The buckets tried from the smallest threshold upwards.
calculateMarketMaturity_AscendingOrder(marketCap) ==
    IF marketCap >= MICRO_CAP THEN [score |-> Fin(2500), category |-> "Emergente"]
    ELSE IF marketCap >= SMALL_CAP THEN [score |-> Fin(2000), category |-> "En Desarrollo"]
    ELSE IF marketCap >= MID_CAP THEN [score |-> Fin(1500), category |-> "Maduro"]
    ELSE IF marketCap >= LARGE_CAP THEN [score |-> Fin(1000), category |-> "Establecido"]
    ELSE [score |-> Fin(3000), category |-> "Especulativo"]

calculateMarketMaturity(marketCap) ==
    IF marketCap >= LARGE_CAP THEN [score |-> Fin(1000), category |-> "Establecido"]
    ELSE IF marketCap >= MID_CAP THEN [score |-> Fin(1500), category |-> "Maduro"]
    ELSE IF marketCap >= SMALL_CAP THEN [score |-> Fin(2000), category |-> "En Desarrollo"]
    ELSE IF marketCap >= MICRO_CAP THEN [score |-> Fin(2500), category |-> "Emergente"]
    ELSE [score |-> Fin(3000), category |-> "Especulativo"]

\* The category thresholds tried from the lowest upwards.
calculateVolumeHealth_AscendingCategory(volumeRatio) ==
    LET normalizedRatio == MathMin(volumeRatio, Fin(EXCEPTIONAL))
        volumeScore ==
            JsDiv(MathLog10(JsAdd(JsScale(normalizedRatio, 100, 1), Fin(Unit))),
                  MathLog10(JsAdd(JsScale(Fin(EXCEPTIONAL), 100, 1), Fin(Unit))))
    IN  [score |-> volumeScore,
         category |-> IF JsGe(volumeRatio, Fin(HEALTHY)) THEN "Saludable"
                      ELSE IF JsGe(volumeRatio, Fin(STRONG)) THEN "Fuerte"
                      ELSE IF JsGe(volumeRatio, Fin(EXCEPTIONAL)) THEN "Excepcional"
                      ELSE "Bajo"]

\* The score computed from the ratio itself, without the Math.min.
calculateVolumeHealth_Unclamped(volumeRatio) ==
    LET volumeScore ==
            JsDiv(MathLog10(JsAdd(JsScale(volumeRatio, 100, 1), Fin(Unit))),
                  MathLog10(JsAdd(JsScale(Fin(EXCEPTIONAL), 100, 1), Fin(Unit))))
    IN  [score |-> volumeScore,
         category |-> IF JsGe(volumeRatio, Fin(EXCEPTIONAL)) THEN "Excepcional"
                      ELSE IF JsGe(volumeRatio, Fin(STRONG)) THEN "Fuerte"
                      ELSE IF JsGe(volumeRatio, Fin(HEALTHY)) THEN "Saludable"
                      ELSE "Bajo"]

calculateVolumeHealth(volumeRatio) ==
    LET normalizedRatio == MathMin(volumeRatio, Fin(EXCEPTIONAL))
        volumeScore ==
            JsDiv(MathLog10(JsAdd(JsScale(normalizedRatio, 100, 1), Fin(Unit))),
                  MathLog10(JsAdd(JsScale(Fin(EXCEPTIONAL), 100, 1), Fin(Unit))))
    IN  [score |-> volumeScore,
         category |-> IF JsGe(volumeRatio, Fin(EXCEPTIONAL)) THEN "Excepcional"
                      ELSE IF JsGe(volumeRatio, Fin(STRONG)) THEN "Fuerte"
                      ELSE IF JsGe(volumeRatio, Fin(HEALTHY)) THEN "Saludable"
                      ELSE "Bajo"]

\* priceChanges.reduce((a, b) => a + b, 0)
RECURSIVE SumSeq(_)
SumSeq(s) == IF s = <<>> THEN Fin(0) ELSE JsAdd(s[1], SumSeq(Tail(s)))

IsGain(x) == JsGt(x, Fin(0))
IsLoss(x) == JsLt(x, Fin(0))

\* The oscillator computed without the `if (avgLoss === 0) return 1`.
calculateMomentumIndicator_Unguarded(priceChanges) ==
    LET gains == SelectSeq(priceChanges, IsGain)
        losses == [i \in 1..Len(SelectSeq(priceChanges, IsLoss)) |->
                      JsNeg(SelectSeq(priceChanges, IsLoss)[i])]
        avgGain == IF Len(gains) > 0
                   THEN JsDiv(SumSeq(gains), Fin(Len(gains) * Unit)) ELSE Fin(0)
        avgLoss == IF Len(losses) > 0
                   THEN JsDiv(SumSeq(losses), Fin(Len(losses) * Unit)) ELSE Fin(0)
        RS == JsDiv(avgGain, avgLoss)
    IN  JsScale(JsSub(Fin(100 * Unit), JsDiv(Fin(100 * Unit), JsAdd(Fin(Unit), RS))),
                1, 100)

calculateMomentumIndicator(priceChanges) ==
    LET gains == SelectSeq(priceChanges, IsGain)
        losses == [i \in 1..Len(SelectSeq(priceChanges, IsLoss)) |->
                      JsNeg(SelectSeq(priceChanges, IsLoss)[i])]
        avgGain == IF Len(gains) > 0
                   THEN JsDiv(SumSeq(gains), Fin(Len(gains) * Unit)) ELSE Fin(0)
        avgLoss == IF Len(losses) > 0
                   THEN JsDiv(SumSeq(losses), Fin(Len(losses) * Unit)) ELSE Fin(0)
        RS == JsDiv(avgGain, avgLoss)
    IN  IF avgLoss = Fin(0) THEN Fin(Unit)
        ELSE JsScale(JsSub(Fin(100 * Unit), JsDiv(Fin(100 * Unit), JsAdd(Fin(Unit), RS))),
                     1, 100)

RECURSIVE SumSquares(_, _)
SumSquares(s, mean) ==
    IF s = <<>> THEN Fin(0)
    ELSE JsAdd(JsMul(JsSub(s[1], mean), JsSub(s[1], mean)), SumSquares(Tail(s), mean))

calculateVolatilityScore(priceChanges) ==
    LET n == Fin(Len(priceChanges) * Unit)
        mean == JsDiv(SumSeq(priceChanges), n)
        variance == JsDiv(SumSquares(priceChanges, mean), n)
        stdDev == MathSqrt(variance)
    IN  [score |-> MathMin(JsDiv(stdDev, Fin(VOLATILITY_HIGH * Unit)), Fin(Unit)),
         category |-> IF JsGt(stdDev, Fin(VOLATILITY_HIGH * Unit)) THEN "Alta"
                      ELSE IF JsGt(stdDev, Fin(VOLATILITY_MEDIUM * Unit)) THEN "Media"
                      ELSE "Baja"]

-----------------------------------------------------------------------------
(* AdvancedCryptoAnalyzer: scorers                                          *)

\* The weighted sum of calculateInvestmentScore, before it is clamped.
InvestmentSum(analysis) ==
    LET marketMaturityScore ==
            JsScale(JsSub(Fin(4 * Unit), analysis.metrics.marketMaturity.score), 2, 1)
        volumeScore == JsScale(analysis.metrics.volumeHealth.score, 10, 1)
        momentumScore == JsScale(analysis.metrics.momentum, 10, 1)
        volatilityAdjustment ==
            MathMax(Fin(0), JsSub(Fin(Unit), analysis.metrics.volatility.score))
        marketCapOptimality ==
            MathMin(Fin(10 * Unit), JsScale(Log10CapRatio(analysis.basic.marketCap), 2, 1))
        volumeRatio ==
            MathMin(Fin(10 * Unit),
                    JsScale(MoneyRatio(analysis.basic.volume24h, analysis.basic.marketCap),
                            5, 1))
    IN  JsAdd(JsScale(marketMaturityScore, 20, 100),
        JsAdd(JsScale(volumeScore, 20, 100),
        JsAdd(JsScale(momentumScore, 25, 100),
        JsAdd(JsScale(volatilityAdjustment, 15, 100),
        JsAdd(JsScale(marketCapOptimality, 10, 100),
              JsScale(volumeRatio, 10, 100))))))

\* The sum is returned as it is: Math.max(1, Math.min(10, ...)) is left out.
calculateInvestmentScore_Unclamped(analysis) == InvestmentSum(analysis)

calculateInvestmentScore(analysis) ==
    MathMax(Fin(Unit), MathMin(Fin(10 * Unit), InvestmentSum(analysis)))

\* The weights of volatility and market maturity exchanged.
calculateRiskLevel_SwappedWeights(analysis) ==
    LET volatilityWeight == JsScale(analysis.metrics.volatility.score, 30, 100)
        marketMaturityWeight ==
            JsScale(JsScale(analysis.metrics.marketMaturity.score, 1, 3), 40, 100)
        volumeWeight ==
            JsScale(JsSub(Fin(Unit), analysis.metrics.volumeHealth.score), 30, 100)
        riskScore == JsAdd(JsAdd(volatilityWeight, marketMaturityWeight), volumeWeight)
    IN  [level |-> IF JsGt(riskScore, Fin(660)) THEN "Alto"
                   ELSE IF JsGt(riskScore, Fin(330)) THEN "Medio"
                   ELSE "Bajo",
         score |-> riskScore]

calculateRiskLevel(analysis) ==
    LET volatilityWeight == JsScale(analysis.metrics.volatility.score, 40, 100)
        marketMaturityWeight ==
            JsScale(JsScale(analysis.metrics.marketMaturity.score, 1, 3), 30, 100)
        volumeWeight ==
            JsScale(JsSub(Fin(Unit), analysis.metrics.volumeHealth.score), 30, 100)
        riskScore == JsAdd(JsAdd(volatilityWeight, marketMaturityWeight), volumeWeight)
    IN  [level |-> IF JsGt(riskScore, Fin(660)) THEN "Alto"
                   ELSE IF JsGt(riskScore, Fin(330)) THEN "Medio"
                   ELSE "Bajo",
         score |-> riskScore]

PotentialSum(analysis) ==
    LET marketGrowthFactor == JsScale(Log10CapRatio(analysis.basic.marketCap), 5, 10)
        volumeHealthFactor == analysis.metrics.volumeHealth.score
        momentumFactor == analysis.metrics.momentum
        maturityFactor ==
            JsScale(JsSub(Fin(4 * Unit), analysis.metrics.marketMaturity.score), 1, 3)
    IN  JsScale(JsAdd(JsScale(marketGrowthFactor, 40, 100),
                JsAdd(JsScale(volumeHealthFactor, 20, 100),
                JsAdd(JsScale(momentumFactor, 20, 100),
                      JsScale(maturityFactor, 20, 100)))),
                10, 1)

calculatePotentialReturn(analysis) ==
    MathMax(Fin(Unit), MathMin(Fin(10 * Unit), PotentialSum(analysis)))

-----------------------------------------------------------------------------
(* AdvancedCryptoAnalyzer: base analysis and dominance adjustment           *)

\* A percent_change_* field the API reports as null.
Null == [t |-> "null", v |-> 0]

NotNull(x) == x # Null

\* performBaseAnalysis reads coinData.quote.USD: a response entry without a
\* quote object makes it throw a TypeError.
BaseAnalysisThrows(coinData) == ~coinData.hasQuote

performBaseAnalysis(coinData, coinbase) ==
    LET priceChanges == SelectSeq(coinData.changes, NotNull)
        partial ==
            [basic |-> [symbol |-> coinData.symbol,
                        marketCap |-> coinData.market_cap,
                        volume24h |-> coinData.volume_24h],
             metrics |->
                [marketMaturity |-> calculateMarketMaturity(coinData.market_cap),
                 volumeHealth |->
                    calculateVolumeHealth(MoneyRatio(coinData.volume_24h, coinData.market_cap)),
                 momentum |-> calculateMomentumIndicator(priceChanges),
                 volatility |-> calculateVolatilityScore(priceChanges)],
             performance |-> coinData.changes,
             isOnCoinbase |-> coinData.symbol \in coinbase]
    IN  [basic |-> partial.basic,
         metrics |-> partial.metrics,
         performance |-> partial.performance,
         isOnCoinbase |-> partial.isOnCoinbase,
         investmentScore |-> calculateInvestmentScore(partial),
         riskLevel |-> calculateRiskLevel(partial),
         potentialReturn |-> calculatePotentialReturn(partial)]

\* String.prototype.toUpperCase on the symbols the model handles: a symbol
\* typed or delivered in lower case is folded, every other one is unchanged.
ToUpperCase(symbol) ==
    IF symbol = "btc" THEN "BTC"
    ELSE IF symbol = "eth" THEN "ETH"
    ELSE symbol

\* The adjusted score written over investmentScore as well.
adjustForBTCDominance_OverwritesScore(analysis, btcDominance) ==
    LET isBTC == ToUpperCase(analysis.basic.symbol) = "BTC"
        dominanceImpact == IF isBTC THEN btcDominance.impact.btcImpact
                           ELSE btcDominance.impact.altcoinImpact
        adjusted == JsMul(analysis.investmentScore, Fin(dominanceImpact))
    IN  [basic |-> analysis.basic,
         metrics |-> analysis.metrics,
         performance |-> analysis.performance,
         isOnCoinbase |-> analysis.isOnCoinbase,
         investmentScore |-> adjusted,
         riskLevel |-> analysis.riskLevel,
         potentialReturn |-> analysis.potentialReturn,
         btcDominance |-> btcDominance,
         adjustedScore |-> adjusted]

\* The assignment of the multiplier with the case folding left out.
adjustForBTCDominance_ExactSymbol(analysis, btcDominance) ==
    LET isBTC == analysis.basic.symbol = "BTC"
        dominanceImpact == IF isBTC THEN btcDominance.impact.btcImpact
                           ELSE btcDominance.impact.altcoinImpact
    IN  [basic |-> analysis.basic,
         metrics |-> analysis.metrics,
         performance |-> analysis.performance,
         isOnCoinbase |-> analysis.isOnCoinbase,
         investmentScore |-> analysis.investmentScore,
         riskLevel |-> analysis.riskLevel,
         potentialReturn |-> analysis.potentialReturn,
         btcDominance |-> btcDominance,
         adjustedScore |-> JsMul(analysis.investmentScore, Fin(dominanceImpact))]

adjustForBTCDominance(analysis, btcDominance) ==
    LET isBTC == ToUpperCase(analysis.basic.symbol) = "BTC"
        dominanceImpact == IF isBTC THEN btcDominance.impact.btcImpact
                           ELSE btcDominance.impact.altcoinImpact
    IN  [basic |-> analysis.basic,
         metrics |-> analysis.metrics,
         performance |-> analysis.performance,
         isOnCoinbase |-> analysis.isOnCoinbase,
         investmentScore |-> analysis.investmentScore,
         riskLevel |-> analysis.riskLevel,
         potentialReturn |-> analysis.potentialReturn,
         btcDominance |-> btcDominance,
         adjustedScore |-> JsMul(analysis.investmentScore, Fin(dominanceImpact))]

-----------------------------------------------------------------------------
(* Upstream market data                                                     *)

Pct(n) == Fin(n * Unit)

Symbols == {"BTC", "COIN1", "COIN2", "ZERO"}

\* data[symbol] of the quotes response, when the symbol is there and well formed.
Quote(symbol) ==
    IF symbol = "BTC" THEN
        [symbol |-> symbol, hasQuote |-> TRUE, market_cap |-> 1000000,
         volume_24h |-> 50000, changes |-> <<Pct(1), Pct(5), Pct(10), Pct(20)>>]
    ELSE IF symbol = "ZERO" THEN
        [symbol |-> symbol, hasQuote |-> TRUE, market_cap |-> 0,
         volume_24h |-> 0, changes |-> <<Pct(1), Pct(-5), Pct(10), Null>>]
    ELSE IF symbol = "NEW" THEN
        [symbol |-> symbol, hasQuote |-> TRUE, market_cap |-> 1000,
         volume_24h |-> 100, changes |-> <<Null, Null, Null, Null>>]
    ELSE IF symbol = "ETH" THEN
        [symbol |-> symbol, hasQuote |-> TRUE, market_cap |-> 400000,
         volume_24h |-> 20000, changes |-> <<Pct(-1), Pct(2), Pct(-5), Pct(10)>>]
    ELSE
        [symbol |-> symbol, hasQuote |-> TRUE, market_cap |-> 1000,
         volume_24h |-> 100, changes |-> <<Null, Pct(5), Pct(10), Null>>]

\* An entry of the response that lacks the quote object.
Malformed(symbol) == [Quote(symbol) EXCEPT !.hasQuote = FALSE]

\* The keys of the Coinbase exchange-rates response.
CoinbaseListed == {"BTC", "COIN1"}

\* The dominance readings the upstream moves between while a scan runs.
ScanDominances == {45 * Unit, 65 * Unit}

Injective(f) == \A i, j \in DOMAIN f : f[i] = f[j] => i = j

\* The listings response: up to MaxListing distinct coins, in any order.
Listings ==
    UNION {{l \in [1..n -> Symbols] : Injective(l)} : n \in 0..MaxListing}

-----------------------------------------------------------------------------
(* Array.prototype.sort and slice as scanTopOpportunities uses them         *)

\* .slice(0, 10)
TOP_K == 10

\* The comparator (a, b) => b.adjustedScore - a.adjustedScore
Compare(a, b) == JsSub(b.adjustedScore, a.adjustedScore)

\* A comparator that returns NaN for some pair is no consistent comparison
\* function: ECMAScript then leaves the resulting order to the implementation.
ConsistentComparator(ops) ==
    \A i, j \in 1..Len(ops) : ~IsNaN(Compare(ops[i], ops[j]))

\* x goes before the first element it must precede (stable insertion).
RECURSIVE InsertSorted(_, _)
InsertSorted(sorted, x) ==
    IF sorted = <<>> THEN <<x>>
    ELSE IF JsLt(Compare(x, sorted[1]), Fin(0)) THEN <<x>> \o sorted
    ELSE <<sorted[1]>> \o InsertSorted(Tail(sorted), x)

RECURSIVE StableSort(_)
StableSort(ops) ==
    IF ops = <<>> THEN <<>>
    ELSE InsertSorted(StableSort(SubSeq(ops, 1, Len(ops) - 1)), ops[Len(ops)])

Reorderings(ops) ==
    {[i \in 1..Len(ops) |-> ops[p[i]]] :
        p \in {q \in [1..Len(ops) -> 1..Len(ops)] : Injective(q)}}

\* Every array .sort(comparator) may leave behind.
SortOutcomes(ops) ==
    IF ConsistentComparator(ops) THEN {StableSort(ops)} ELSE Reorderings(ops)

Slice(s, k) == SubSeq(s, 1, IF Len(s) < k THEN Len(s) ELSE k)

-----------------------------------------------------------------------------
(* analyzeToken: the call and its two concurrent requests                   *)

NoCall ==
    [caller |-> "none", symbol |-> "", state |-> "none", quote |-> "none",
     dom |-> "none", data |-> <<>>, cycle |-> <<>>, value |-> <<>>, error |-> "",
     message |-> <<>>]

\* error.message of a failed axios request.
UpstreamMessage == "Network Error"

\* The message of the Error analyzeToken's catch throws: the caught message
\* behind `Error analizando ${symbol}: `. A message is the sequence of its
\* parts, outermost prefix first.
AnalyzeTokenMessage(symbol, caught) == <<"Error analizando", symbol>> \o caught

\* The message analyzeMarketCycle's catch throws around the one
\* getCurrentDominance's catch throws around the request's.
MarketCycleMessage(caught) ==
    <<"Error en analisis de ciclo", "Error obteniendo dominancia BTC">> \o caught

\* Promise.all([axios.get(quotes), analyzeMarketCycle()]): both requests leave.
NewCall(caller, symbol) ==
    [NoCall EXCEPT !.caller = caller, !.symbol = symbol, !.state = "running",
                   !.quote = "pending", !.dom = "pending"]

\* analyzeToken without the `if (!coinData) throw`: the missing entry is
\* returned as no analysis.
Complete_MissingEntryResolves(call, coinbase) ==
    IF call.data = <<>> THEN [call EXCEPT !.state = "resolved"]
    ELSE IF BaseAnalysisThrows(call.data[1]) THEN
        [call EXCEPT !.state = "rejected", !.error = "TypeError",
                     !.message = AnalyzeTokenMessage(call.symbol, <<"TypeError">>)]
    ELSE
        [call EXCEPT !.state = "resolved",
                     !.value = <<adjustForBTCDominance(
                                    performBaseAnalysis(call.data[1], coinbase),
                                    call.cycle[1])>>]

\* What analyzeToken does once both requests have answered.
Complete(call, coinbase) ==
    IF call.data = <<>> THEN
        [call EXCEPT !.state = "rejected", !.error = "Token no encontrado",
                     !.message = AnalyzeTokenMessage(call.symbol, <<"Token no encontrado">>)]
    ELSE IF BaseAnalysisThrows(call.data[1]) THEN
        [call EXCEPT !.state = "rejected", !.error = "TypeError",
                     !.message = AnalyzeTokenMessage(call.symbol, <<"TypeError">>)]
    ELSE
        [call EXCEPT !.state = "resolved",
                     !.value = <<adjustForBTCDominance(
                                    performBaseAnalysis(call.data[1], coinbase),
                                    call.cycle[1])>>]

\* The settled call is recorded in the history of the scan that made it.
Record(call) ==
    IF call.caller = "scan" /\ call.state \in {"resolved", "rejected"}
    THEN settled' = Append(settled, IF call.state = "resolved" THEN "ok" ELSE call.error)
    ELSE settled' = settled

Settle(call) ==
    /\ tok' = call
    /\ Record(call)
    /\ UNCHANGED <<watchVars, dominance, coinbaseTokens, pc, listing, idx, opportunities, logged,
                   result, domFetches, op, input, output>>

\* analyzeToken returning the base analysis as soon as the quote is in,
\* without waiting for analyzeMarketCycle.
QuoteResponds_ResolvesUnadjusted ==
    /\ tok.state = "running" /\ tok.quote = "pending"
    /\ \E data \in {<<Quote(tok.symbol)>>, <<Malformed(tok.symbol)>>, <<>>} :
          LET got == [tok EXCEPT !.quote = "ok", !.data = data]
          IN  Settle(IF got.dom = "ok" THEN Complete(got, coinbaseTokens)
                     ELSE IF data # <<>> /\ ~BaseAnalysisThrows(data[1])
                          THEN [got EXCEPT !.state = "resolved",
                                           !.value = <<performBaseAnalysis(
                                                          data[1], coinbaseTokens)>>]
                     ELSE got)

\* The quotes request answers: with the symbol's entry, with an entry that has
\* no quote object, or without the symbol.
QuoteResponds ==
    /\ tok.state = "running" /\ tok.quote = "pending"
    /\ \E data \in {<<Quote(tok.symbol)>>, <<Malformed(tok.symbol)>>, <<>>} :
          LET got == [tok EXCEPT !.quote = "ok", !.data = data]
          IN  Settle(IF got.dom = "ok" THEN Complete(got, coinbaseTokens) ELSE got)

\* The quotes request fails: Promise.all rejects at once.
QuoteFails ==
    /\ tok.state = "running" /\ tok.quote = "pending"
    /\ Settle([tok EXCEPT !.quote = "error", !.state = "rejected",
                          !.error = "quote request failed",
                          !.message = AnalyzeTokenMessage(tok.symbol, <<UpstreamMessage>>)])

\* getCurrentDominance answers and analyzeMarketCycle resolves.
DominanceResponds ==
    /\ tok.state = "running" /\ tok.dom = "pending"
    /\ LET got == [tok EXCEPT !.dom = "ok", !.cycle = <<MarketCycle(dominance)>>]
       IN  Settle(IF got.quote = "ok" THEN Complete(got, coinbaseTokens) ELSE got)

\* A failed dominance request answered with a neutral cycle instead of an error.
DominanceFails_NeutralCycle ==
    /\ tok.state = "running" /\ tok.dom = "pending"
    /\ LET got == [tok EXCEPT !.dom = "error", !.cycle = <<MarketCycle(50 * Unit)>>]
       IN  Settle(IF got.quote = "ok" THEN Complete(got, coinbaseTokens) ELSE got)

\* getCurrentDominance fails: analyzeMarketCycle rethrows, Promise.all rejects.
DominanceFails ==
    /\ tok.state = "running" /\ tok.dom = "pending"
    /\ Settle([tok EXCEPT !.dom = "error", !.state = "rejected",
                          !.error = "Error en analisis de ciclo",
                          !.message = AnalyzeTokenMessage(tok.symbol,
                                         MarketCycleMessage(<<UpstreamMessage>>))])

-----------------------------------------------------------------------------
(* startAnalyzer, initialize and scanTopOpportunities                       *)

\* initialize -> updateCoinbaseTokens: the set is replaced, or on a failed
\* request the error is logged and the set stays as it was.
Initialize ==
    /\ pc = "new"
    /\ pc' = "idle"
    /\ coinbaseTokens' \in {coinbaseTokens, CoinbaseListed}
    /\ UNCHANGED <<watchVars, dominance, scanVars, domFetches, tok, op, input, output>>

\* Menu option 1: analyzeToken(symbol).
StartAnalyze ==
    /\ pc = "idle"
    /\ \E symbol \in Symbols : tok' = NewCall("user", symbol)
    /\ pc' = "token"
    /\ domFetches' = 1
    /\ UNCHANGED <<watchVars, dominance, coinbaseTokens, scanVars, op, input, output>>

\* The menu loop gets the analysis or the error.
UserReceives ==
    /\ pc = "token" /\ tok.caller = "user" /\ tok.state \in {"resolved", "rejected"}
    /\ pc' = "analyzed"
    /\ UNCHANGED <<watchVars, dominance, coinbaseTokens, scanVars, domFetches, tok, op, input, output>>

\* Menu option 2: scanTopOpportunities sends the listings request.
StartScan ==
    /\ pc = "idle"
    /\ pc' = "listing"
    /\ listing' = <<>> /\ idx' = 1 /\ opportunities' = <<>> /\ logged' = <<>>
    /\ settled' = <<>> /\ result' = <<>> /\ domFetches' = 0 /\ tok' = NoCall
    /\ UNCHANGED <<watchVars, dominance, coinbaseTokens, op, input, output>>

ListingsRespond ==
    /\ pc = "listing"
    /\ listing' \in Listings
    /\ pc' = "loop"
    /\ UNCHANGED <<watchVars, dominance, coinbaseTokens, idx, opportunities, logged, settled, result,
                   domFetches, tok, op, input, output>>

\* The listings request fails: the outer catch rethrows, the scan rejects.
ListingsFail ==
    /\ pc = "listing"
    /\ pc' = "failed"
    /\ UNCHANGED <<watchVars, dominance, coinbaseTokens, scanVars, domFetches, tok, op, input, output>>

\* for (const coin of response.data.data): await this.analyzeToken(coin.symbol)
LoopAnalyzeToken ==
    /\ pc = "loop" /\ idx <= Len(listing)
    /\ tok' = NewCall("scan", listing[idx])
    /\ domFetches' = domFetches + 1
    /\ pc' = "token"
    /\ UNCHANGED <<watchVars, dominance, coinbaseTokens, scanVars, op, input, output>>

\* The inner catch block propagates the error instead of logging it.
ScanCatch_Rethrow ==
    /\ pc' = "failed"
    /\ UNCHANGED <<watchVars, logged, opportunities, idx>>

\* catch (error) { await this.log(`Error analizando ${coin.symbol}: ...`) }
ScanCatch ==
    /\ logged' = Append(logged, listing[idx])
    /\ opportunities' = opportunities
    /\ idx' = idx + 1
    /\ pc' = "loop"

\* opportunities.push(analysis)
ScanPush ==
    /\ opportunities' = Append(opportunities, tok.value[1])
    /\ logged' = logged
    /\ idx' = idx + 1
    /\ pc' = "loop"

\* The awaited analyzeToken settles and the loop body goes on.
LoopResume ==
    /\ pc = "token" /\ tok.caller = "scan" /\ tok.state \in {"resolved", "rejected"}
    /\ IF tok.state = "resolved" THEN ScanPush ELSE ScanCatch
    /\ UNCHANGED <<watchVars, dominance, coinbaseTokens, listing, settled, result, domFetches, tok,
                   op, input, output>>

\* return opportunities.sort(...).slice(0, 10)
Ranking(ops) == {Slice(sorted, TOP_K) : sorted \in SortOutcomes(ops)}

FinishScan ==
    /\ pc = "loop" /\ idx > Len(listing)
    /\ result' \in Ranking(opportunities)
    /\ pc' = "done"
    /\ UNCHANGED <<watchVars, dominance, coinbaseTokens, listing, idx, opportunities, logged, settled,
                   domFetches, tok, op, input, output>>

\* Back to the menu.
Menu ==
    /\ pc \in {"done", "failed", "analyzed"}
    /\ pc' = "idle"
    /\ listing' = <<>> /\ idx' = 1 /\ opportunities' = <<>> /\ logged' = <<>>
    /\ settled' = <<>> /\ result' = <<>> /\ domFetches' = 0 /\ tok' = NoCall
    /\ UNCHANGED <<watchVars, dominance, coinbaseTokens, op, input, output>>

\* The market moves: the upstream reports another dominance from now on.  A
\* move is taken between two coins of a scan; a move during a call reads the
\* same as one just before or just after it.
DominanceMoves ==
    /\ pc = "loop"
    /\ dominance' \in ScanDominances \ {dominance}
    /\ UNCHANGED <<watchVars, coinbaseTokens, pc, scanVars, domFetches, tok, op, input, output>>

\* new CryptoMonitor(apiKey): an empty watchlist, nothing running.
NoAdd == [symbol |-> "", targetMultiplier |-> [t |-> "fin", v |-> 0], state |-> "none"]

MonitorOff == [state |-> "off", round |-> 0, idx |-> 1, polled |-> <<>>]

WatchIdle == watchlist = <<>> /\ adding = NoAdd /\ monitor = MonitorOff

Init ==
    /\ WatchIdle
    /\ dominance \in ScanDominances
    /\ coinbaseTokens = {}
    /\ pc = "new"
    /\ listing = <<>> /\ idx = 1 /\ opportunities = <<>> /\ logged = <<>>
    /\ settled = <<>> /\ result = <<>> /\ domFetches = 0 /\ tok = NoCall
    /\ op = "none" /\ input = 0 /\ output = 0

Next ==
    \/ Initialize
    \/ StartAnalyze
    \/ UserReceives
    \/ StartScan
    \/ ListingsRespond
    \/ ListingsFail
    \/ LoopAnalyzeToken
    \/ QuoteResponds
    \/ QuoteFails
    \/ DominanceResponds
    \/ DominanceFails
    \/ LoopResume
    \/ FinishScan
    \/ Menu
    \/ DominanceMoves

Spec == Init /\ [][Next]_vars

-----------------------------------------------------------------------------
(* Pure functions applied to inputs drawn from bounded sets                 *)

Grid01 == {(k * Unit) \div ScoreGrain : k \in 0..ScoreGrain}

\* Analyses with marketCap > 0 and well-formed metrics, as the scorers read them.
WellFormedAnalyses ==
    {[basic |-> [marketCap |-> cap, volume24h |-> volume],
      metrics |-> [marketMaturity |-> [score |-> Fin(mm)],
                   volumeHealth |-> [score |-> Fin(vh)],
                   momentum |-> Fin(mo),
                   volatility |-> [score |-> Fin(vo)]]] :
        cap \in {1, 50, 1000, 100000, 1000000, 1000000000},
        volume \in {0, 100, 50000, 400000},
        mm \in {1000, 1500, 2000, 2500, 3000},
        vh \in Grid01, mo \in Grid01, vo \in Grid01}

HarnessIdle ==
    /\ WatchIdle
    /\ dominance = 45 * Unit
    /\ coinbaseTokens = {}
    /\ pc = "new"
    /\ listing = <<>> /\ idx = 1 /\ opportunities = <<>> /\ logged = <<>>
    /\ settled = <<>> /\ result = <<>> /\ domFetches = 0 /\ tok = NoCall

Apply(name, value) ==
    /\ op' = name
    /\ output' = value
    /\ UNCHANGED <<watchVars, input, dominance, coinbaseTokens, pc, scanVars, domFetches, tok>>

ApplyDetermineCyclePhase == Apply("determineCyclePhase", determineCyclePhase(input))

ApplyAssessMarketImpact == Apply("assessMarketImpact", assessMarketImpact(input))

CycleInit == HarnessIdle /\ op = "none" /\ input \in Dominances /\ output = 0

\* analyzeMarketCycle once getCurrentDominance has given the input.
ApplyAnalyzeMarketCycle == Apply("analyzeMarketCycle", MarketCycle(input))

CycleNext ==
    ApplyDetermineCyclePhase \/ ApplyAssessMarketImpact \/ ApplyAnalyzeMarketCycle

CycleSpec == CycleInit /\ [][CycleNext]_vars

ApplyInvestmentScore == Apply("calculateInvestmentScore", calculateInvestmentScore(input))

ApplyPotentialReturn == Apply("calculatePotentialReturn", calculatePotentialReturn(input))

ScorerInit == HarnessIdle /\ op = "none" /\ input \in WellFormedAnalyses /\ output = 0

ApplyRiskLevel == Apply("calculateRiskLevel", calculateRiskLevel(input))

ScorerNext == ApplyInvestmentScore \/ ApplyPotentialReturn \/ ApplyRiskLevel

ScorerSpec == ScorerInit /\ [][ScorerNext]_vars

\* adjustForBTCDominance on analyses of the catalogue, the symbol as delivered
\* or in lower case, the investmentScore the computed one or a sample of
\* [1, 10], against the market cycle of every dominance.
\* calculateInvestmentScore on analysis objects that lack some of the
\* properties it reads, the others as in the tests' mockAnalysis.
MetricFields == {"marketMaturity", "volumeHealth", "momentum", "volatility"}

BasicFields == {"marketCap", "volume24h"}

MockMetric(field) ==
    IF field = "marketMaturity" THEN [score |-> Fin(1500)]
    ELSE IF field = "volumeHealth" THEN [score |-> Fin(800)]
    ELSE IF field = "momentum" THEN Fin(700)
    ELSE [score |-> Fin(400)]

MockBasic(field) == IF field = "marketCap" THEN 1000000 ELSE 50000

PartialAnalyses ==
    {[metrics |-> [f \in present |-> MockMetric(f)],
      basic |-> [f \in known |-> MockBasic(f)]] :
        present \in SUBSET MetricFields, known \in SUBSET BasicFields}

\* The TypeError a property read on undefined throws.
TypeError == [t |-> "TypeError", v |-> 0]

\* `.score` is read on marketMaturity, volumeHealth and volatility: a missing
\* one is undefined and the read throws.
InvestmentScoreThrows(analysis) ==
    \E f \in {"marketMaturity", "volumeHealth", "volatility"} :
        f \notin DOMAIN analysis.metrics

\* A call of calculateInvestmentScore(analysis): the TypeError, or the value
\* returned. momentum, marketCap and volume24h are used as numbers: a missing
\* one is undefined, its term is NaN, and so are the sum and both clamps.
InvestmentScoreCall(analysis) ==
    IF InvestmentScoreThrows(analysis) THEN TypeError
    ELSE IF /\ "momentum" \in DOMAIN analysis.metrics
            /\ DOMAIN analysis.basic = BasicFields
         THEN calculateInvestmentScore(analysis)
    ELSE NaN

ApplyInvestmentScoreCall ==
    Apply("calculateInvestmentScore", InvestmentScoreCall(input))

PartialInit == HarnessIdle /\ op = "none" /\ input \in PartialAnalyses /\ output = 0

PartialNext == ApplyInvestmentScoreCall

PartialSpec == PartialInit /\ [][PartialNext]_vars

\* calculateMomentumIndicator and calculateVolatilityScore on the series of
\* up to MaxSeries percent changes.
ChangeValues == {Pct(-10), Pct(-5), Pct(0), Pct(5), Pct(50)}

ChangeSeries == UNION {[1..n -> ChangeValues] : n \in 0..MaxSeries}

ApplyMomentumIndicator ==
    Apply("calculateMomentumIndicator", calculateMomentumIndicator(input))

ApplyVolatilityScore ==
    Apply("calculateVolatilityScore", calculateVolatilityScore(input))

SeriesInit == HarnessIdle /\ op = "none" /\ input \in ChangeSeries /\ output = 0

SeriesNext == ApplyMomentumIndicator \/ ApplyVolatilityScore

SeriesSpec == SeriesInit /\ [][SeriesNext]_vars

\* calculateVolumeHealth on the ratios of [0, 1] and on the ratio of a volume
\* to a market cap of 0.
VolumeRatios == {Fin((k * 10) \div RatioGrain) : k \in 0..(100 * RatioGrain)} \cup {PosInf}

ApplyVolumeHealth == Apply("calculateVolumeHealth", calculateVolumeHealth(input))

VolumeInit == HarnessIdle /\ op = "none" /\ input \in VolumeRatios /\ output = 0

VolumeNext == ApplyVolumeHealth

VolumeSpec == VolumeInit /\ [][VolumeNext]_vars

\* calculateMarketMaturity on market caps (millions of USD) around every
\* threshold, from 0 to the 1e12 of the tests.
MarketCaps ==
    (0..60) \cup (240..260) \cup (990..1010) \cup (9990..10010) \cup {100000, 1000000}

ApplyMarketMaturity == Apply("calculateMarketMaturity", calculateMarketMaturity(input))

MaturityInit == HarnessIdle /\ op = "none" /\ input \in MarketCaps /\ output = 0

MaturityNext == ApplyMarketMaturity

MaturitySpec == MaturityInit /\ [][MaturityNext]_vars

AdjustSymbols == {"BTC", "btc", "ETH", "COIN1", "ZERO", "NEW"}

ScoreSamples == {Fin(1000), Fin(7500), Fin(10000)}

AnalysisOf(symbol) ==
    LET analysis == performBaseAnalysis(Quote(ToUpperCase(symbol)), CoinbaseListed)
    IN  [analysis EXCEPT !.basic.symbol = symbol]

AdjustInputs ==
    UNION {{[analysis |-> [AnalysisOf(symbol) EXCEPT !.investmentScore = score],
             dominance |-> d] :
               score \in ScoreSamples \cup {AnalysisOf(symbol).investmentScore},
               d \in Dominances} :
           symbol \in AdjustSymbols}

ApplyAdjustForBTCDominance ==
    Apply("adjustForBTCDominance",
          adjustForBTCDominance(input.analysis, MarketCycle(input.dominance)))

AdjustInit == HarnessIdle /\ op = "none" /\ input \in AdjustInputs /\ output = 0

AdjustNext == ApplyAdjustForBTCDominance

AdjustSpec == AdjustInit /\ [][AdjustNext]_vars

-----------------------------------------------------------------------------
(* CryptoMonitor: addToWatchlist and monitorPrices                          *)

\* Rounds of the endless loop of monitorPrices that are followed.
MaxRounds == 2

WatchSymbols == {"BTC", "DOGE"}

\* quote.USD.price of a quotes response.
WatchPrices == {Fin(Unit), Fin(3 * Unit)}

\* parseFloat of the multiplier typed at the prompt: a number, or NaN.
Multipliers == {Fin(2 * Unit), NaN}

HasEntry(list, symbol) == \E i \in 1..Len(list) : list[i].symbol = symbol

\* Map.prototype.set: a new key goes last, a known key keeps its place.
MapSet(list, entry) ==
    IF HasEntry(list, entry.symbol)
    THEN [i \in 1..Len(list) |->
             IF list[i].symbol = entry.symbol THEN entry ELSE list[i]]
    ELSE Append(list, entry)

\* addToWatchlist(symbol, targetMultiplier) is called: the quotes request
\* leaves.  The call is async, so it may be made while monitorPrices waits.
AddToWatchlist ==
    /\ adding.state # "pending"
    /\ \E symbol \in WatchSymbols, targetMultiplier \in Multipliers :
          adding' = [symbol |-> symbol, targetMultiplier |-> targetMultiplier,
                     state |-> "pending"]
    /\ UNCHANGED <<watchlist, monitor, dominance, coinbaseTokens, pc, scanVars,
                   domFetches, tok, op, input, output>>

\* The response holds the symbol: the entry is set and the call returns.
AddQuoteResponds ==
    /\ adding.state = "pending"
    /\ \E initialPrice \in WatchPrices :
          watchlist' = MapSet(watchlist,
                              [symbol |-> adding.symbol,
                               initialPrice |-> initialPrice,
                               targetMultiplier |-> adding.targetMultiplier,
                               targetPrice |-> JsMul(initialPrice, adding.targetMultiplier)])
    /\ adding' = [adding EXCEPT !.state = "added"]
    /\ UNCHANGED <<monitor, dominance, coinbaseTokens, pc, scanVars,
                   domFetches, tok, op, input, output>>

\* The catch of addToWatchlist throwing the error on instead of logging it.
AddQuoteFails_Rethrows ==
    /\ adding.state = "pending"
    /\ adding' = [adding EXCEPT !.state = "raised"]
    /\ UNCHANGED <<watchlist, monitor, dominance, coinbaseTokens, pc, scanVars,
                   domFetches, tok, op, input, output>>

\* The request fails, or the response lacks the symbol and the read of
\* .quote throws: the catch logs the error and the call returns.
AddQuoteFails ==
    /\ adding.state = "pending"
    /\ adding' = [adding EXCEPT !.state = "logged"]
    /\ UNCHANGED <<watchlist, monitor, dominance, coinbaseTokens, pc, scanVars,
                   domFetches, tok, op, input, output>>

\* Menu option 4 with a non-empty watchlist: monitorPrices starts a round.
StartMonitor ==
    /\ monitor.state = "off"
    /\ watchlist # <<>>
    /\ monitor' = [state |-> "polling", round |-> 1, idx |-> 1, polled |-> <<>>]
    /\ UNCHANGED <<watchlist, adding, dominance, coinbaseTokens, pc, scanVars,
                   domFetches, tok, op, input, output>>

\* The quote of the entry the for-of loop is at arrives: the price is
\* logged, with the alert when it has reached the target.
MonitorQuoteResponds ==
    /\ monitor.state = "polling"
    /\ monitor.idx <= Len(watchlist)
    /\ \E currentPrice \in WatchPrices :
          LET data == watchlist[monitor.idx]
              event == IF JsGe(currentPrice, data.targetPrice) THEN "alert" ELSE "price"
          IN  monitor' = [monitor EXCEPT
                             !.idx = @ + 1,
                             !.polled = Append(@, [symbol |-> data.symbol,
                                                   event |-> event])]
    /\ UNCHANGED <<watchlist, adding, dominance, coinbaseTokens, pc, scanVars,
                   domFetches, tok, op, input, output>>

\* The request for that entry fails: the catch inside the loop logs it.
MonitorQuoteFails ==
    /\ monitor.state = "polling"
    /\ monitor.idx <= Len(watchlist)
    /\ monitor' = [monitor EXCEPT
                       !.idx = @ + 1,
                       !.polled = Append(@, [symbol |-> watchlist[monitor.idx].symbol,
                                             event |-> "error"])]
    /\ UNCHANGED <<watchlist, adding, dominance, coinbaseTokens, pc, scanVars,
                   domFetches, tok, op, input, output>>

\* The iteration is exhausted (a Map iterator is live: an entry set during
\* the round is still visited): the round ends and the five minutes begin.
MonitorSleep ==
    /\ monitor.state = "polling"
    /\ monitor.idx > Len(watchlist)
    /\ monitor' = [monitor EXCEPT !.state = "sleeping"]
    /\ UNCHANGED <<watchlist, adding, dominance, coinbaseTokens, pc, scanVars,
                   domFetches, tok, op, input, output>>

\* The timer fires: the next round starts at the first entry.
MonitorWake ==
    /\ monitor.state = "sleeping"
    /\ monitor.round < MaxRounds
    /\ monitor' = [state |-> "polling", round |-> monitor.round + 1,
                   idx |-> 1, polled |-> <<>>]
    /\ UNCHANGED <<watchlist, adding, dominance, coinbaseTokens, pc, scanVars,
                   domFetches, tok, op, input, output>>

WatchInit == HarnessIdle /\ op = "none" /\ input = 0 /\ output = 0

WatchNext ==
    \/ AddToWatchlist
    \/ AddQuoteResponds
    \/ AddQuoteFails
    \/ StartMonitor
    \/ MonitorQuoteResponds
    \/ MonitorQuoteFails
    \/ MonitorSleep
    \/ MonitorWake

WatchSpec == WatchInit /\ [][WatchNext]_vars

-----------------------------------------------------------------------------
(* Claims                                                                   *)

SymbolsOf(ops) == {ops[i].basic.symbol : i \in 1..Len(ops)}

ListingIndex(symbol) == CHOOSE i \in 1..Len(listing) : listing[i] = symbol

\* C1: a scan over one or more coins issues exactly one dominance request,
\* and every analysis it returns carries the same DominanceState.
C1_OneDominanceFetchPerScan ==
    (pc = "done" /\ Len(listing) >= 1) =>
        /\ domFetches = 1
        /\ \A i, j \in 1..Len(result) : result[i].btcDominance = result[j].btcDominance

\* C2: a scan during which a dominance fetch failed never completes with a
\* result list; it rejects.
C2_ScanFailsWhenDominanceFails ==
    (\E i \in 1..Len(settled) : settled[i] = "Error en analisis de ciclo") => pc # "done"

\* C3: a failed analysis of one coin is logged and only that coin is dropped:
\* the scan never rejects once the listing is in, the coins handled so far are
\* split into the logged ones (exactly the failed analyses) and the pushed
\* ones (exactly the successful analyses), both in listing order, and the
\* result is made of the successful ones.
C3_PerAssetFailureIsolated ==
    /\ pc = "failed" => (listing = <<>> /\ settled = <<>>)
    /\ pc \in {"loop", "token", "done"} =>
          LET handled == idx - 1
              Failed(i) == settled[i] # "ok"
              IsFailed(i) == Failed(i)
              IsOk(i) == ~Failed(i)
              failedIdx == SelectSeq([i \in 1..handled |-> i], IsFailed)
              okIdx == SelectSeq([i \in 1..handled |-> i], IsOk)
          IN  /\ Len(settled) >= handled
              /\ logged = [k \in 1..Len(failedIdx) |-> listing[failedIdx[k]]]
              /\ [k \in 1..Len(opportunities) |-> opportunities[k].basic.symbol]
                    = [k \in 1..Len(okIdx) |-> listing[okIdx[k]]]
    /\ pc = "done" =>
          /\ idx = Len(listing) + 1
          /\ SymbolsOf(result) \subseteq SymbolsOf(opportunities)
          /\ Len(result) = (IF Len(opportunities) < 10 THEN Len(opportunities) ELSE 10)

\* C3 witness: a finished scan that dropped a failed coin and kept another.
C3_Witness ==
    /\ pc = "done"
    /\ \E i \in 1..Len(settled) : settled[i] = "Token no encontrado"
    /\ Len(logged) >= 1
    /\ Len(result) >= 1

\* C4: a coin whose marketCap is <= 0 never gets an analysis (no score is
\* computed for it), and a finished scan has dropped and logged every such
\* coin of the listing.
C4_NonPositiveMarketCapRejected ==
    /\ tok.state = "resolved" => tok.value[1].basic.marketCap > 0
    /\ pc = "done" =>
          \A i \in 1..Len(listing) :
              Quote(listing[i]).market_cap <= 0 =>
                  /\ listing[i] \notin SymbolsOf(result)
                  /\ \E k \in 1..Len(logged) : logged[k] = listing[i]

\* C5: the result holds at most 10 analyses, in non-increasing order of
\* adjustedScore, and no analysis left out has a greater adjustedScore than
\* one returned.
C5_TopKByAdjustedScore ==
    pc = "done" =>
        /\ Len(result) <= 10
        /\ \A i \in 1..(Len(result) - 1) :
              JsGe(result[i].adjustedScore, result[i + 1].adjustedScore)
        /\ \A k \in 1..Len(opportunities) :
              opportunities[k].basic.symbol \notin SymbolsOf(result) =>
                  \A i \in 1..Len(result) :
                      ~JsGt(opportunities[k].adjustedScore, result[i].adjustedScore)

\* C6: two returned analyses with equal adjustedScore stand in the order
\* their coins had in the listing.
C6_RankingStable ==
    pc = "done" =>
        \A i, j \in 1..Len(result) :
            (/\ i < j
             /\ ~IsNaN(result[i].adjustedScore)
             /\ result[i].adjustedScore = result[j].adjustedScore)
            => ListingIndex(result[i].basic.symbol) < ListingIndex(result[j].basic.symbol)

\* C7: for marketCap > 0 and well-formed metrics, calculateInvestmentScore and
\* calculatePotentialReturn return a number v with 1 <= v <= 10.
C7_ScoresWithinOneToTen ==
    op \in {"calculateInvestmentScore", "calculatePotentialReturn"} =>
        /\ IsFin(output)
        /\ output.v >= 1000
        /\ output.v <= 10000

\* C7 witness: the weighted sum is below 1 and the score returned is 1.
C7_Witness ==
    /\ op = "calculateInvestmentScore"
    /\ JsLt(InvestmentSum(input), Fin(1000))
    /\ output = Fin(1000)

\* C8: for every dominance in [0,100], btcImpact + altcoinImpact = 2.
C8_ImpactsSumToTwo ==
    op = "assessMarketImpact" => output.btcImpact + output.altcoinImpact = 2000

\* C8 witness: the impacts of an altcoin season, 0.8 and 1.2.
C8_Witness ==
    /\ op = "assessMarketImpact"
    /\ input <= 35000
    /\ output.btcImpact = 800
    /\ output.altcoinImpact = 1200

C10_TransitionBetweenLowAndHigh ==
    (op = "determineCyclePhase" /\ input > 35000 /\ input < 60000) =>
        output.name = "transition"

AppliedImpact(symbolIsBTC) ==
    IF symbolIsBTC THEN output.btcDominance.impact.btcImpact
    ELSE output.btcDominance.impact.altcoinImpact

C12_AdjustmentChangesScore ==
    (/\ op = "adjustForBTCDominance"
     /\ AppliedImpact(ToUpperCase(input.analysis.basic.symbol) = "BTC") # 1000)
    => output.adjustedScore # input.analysis.investmentScore

\* C13 as stated: a failed quote or dominance request makes analyzeToken fail
\* with the upstream error unmodified, without a retry and without an
\* analysis built from a default.
C13_UpstreamErrorUnmodified ==
    (tok.quote = "error" \/ tok.dom = "error") =>
        /\ tok.state = "rejected"
        /\ tok.message = <<UpstreamMessage>>
        /\ tok.value = <<>>
        /\ tok.caller = "user" => domFetches = 1

\* C13 amended: a failed quote or dominance request makes analyzeToken fail
\* with a new error whose message is the upstream message behind the prefix
\* "Error analizando <symbol>: ", and for the dominance request also behind
\* "Error en analisis de ciclo: Error obteniendo dominancia BTC: "; there is
\* no retry (one dominance request per call) and no analysis is returned.
C13_UpstreamErrorWrapped ==
    /\ tok.quote = "error" =>
          /\ tok.state = "rejected"
          /\ tok.message = <<"Error analizando", tok.symbol, "Network Error">>
          /\ tok.value = <<>>
    /\ tok.dom = "error" =>
          /\ tok.state = "rejected"
          /\ tok.message = <<"Error analizando", tok.symbol, "Error en analisis de ciclo",
                              "Error obteniendo dominancia BTC", "Network Error">>
          /\ tok.value = <<>>
    /\ (tok.caller = "user" /\ tok.state # "none") => domFetches = 1

\* C13 witness: the user's request was rejected by a failed dominance request
\* after the quote had arrived.
C13_Witness ==
    /\ pc = "analyzed"
    /\ tok.caller = "user"
    /\ tok.quote = "ok" /\ tok.data # <<>>
    /\ tok.dom = "error"
    /\ tok.state = "rejected"

\* C14: when both requests succeeded and the quote response lacks the symbol,
\* analyzeToken fails with 'Token no encontrado' and returns no analysis.
C14_MissingSymbolNotFound ==
    (tok.quote = "ok" /\ tok.dom = "ok" /\ tok.data = <<>>) =>
        /\ tok.state = "rejected"
        /\ tok.message # <<>>
        /\ tok.message[Len(tok.message)] = "Token no encontrado"
        /\ tok.value = <<>>

\* C14 witness: the user's request for a symbol the response does not hold
\* has been rejected, both requests having succeeded.
C14_Witness ==
    /\ pc = "analyzed"
    /\ tok.caller = "user"
    /\ tok.quote = "ok" /\ tok.dom = "ok" /\ tok.data = <<>>
    /\ tok.state = "rejected"
    /\ tok.error = "Token no encontrado"

\* C15: calculateInvestmentScore does not throw for an analysis whose metrics
\* and basic objects are empty.
C15_EmptyAnalysisDoesNotThrow ==
    (/\ op = "calculateInvestmentScore"
     /\ DOMAIN input.metrics = {}
     /\ DOMAIN input.basic = {})
    => output # TypeError

\* C16: on the empty series both calculations return without raising and
\* give defined values, momentum 1 and a volatility score within [0, 1]; on a
\* one-element series the standard deviation is 0 and the volatility score 0.
C16_EmptyAndSingleSeriesDefined ==
    /\ (op = "calculateMomentumIndicator" /\ input = <<>>) => output = Fin(1000)
    /\ (op = "calculateVolatilityScore" /\ input = <<>>) =>
          /\ IsFin(output.score)
          /\ output.score.v >= 0
          /\ output.score.v <= 1000
    /\ (op = "calculateVolatilityScore" /\ Len(input) = 1) => output.score = Fin(0)

\* C18: the volume-health score is non-decreasing in the ratio over [0, 0.50],
\* lies in [0, 1] for every ratio >= 0, is 0 at ratio 0 and is 1 for every
\* ratio >= 0.50.
C18_VolumeScoreMonotoneAndSaturating ==
    op = "calculateVolumeHealth" =>
        /\ IsFin(output.score)
        /\ output.score.v >= 0
        /\ output.score.v <= 1000
        /\ input = Fin(0) => output.score = Fin(0)
        /\ JsGe(input, Fin(500)) => output.score = Fin(1000)
        /\ \A r \in VolumeRatios :
              (JsGe(input, r) /\ JsGe(Fin(500), input)) =>
                  JsGe(output.score, calculateVolumeHealth(r).score)

\* C18 witness: a ratio inside (0, 0.50) scored strictly between the score of
\* a smaller ratio and 1.
C18_Witness ==
    /\ op = "calculateVolumeHealth"
    /\ input = Fin(300)
    /\ output.score.v > calculateVolumeHealth(Fin(150)).score.v
    /\ output.score.v < 1000

\* C19: btcImpact is 1.2 for dominance >= 60, 0.8 for dominance <= 35 and 1.0
\* strictly in between; altcoinImpact is 0.8, 1.2 and 1.0 respectively.
C19_ImpactByDominance ==
    op = "assessMarketImpact" =>
        /\ input >= 60000 => output = [btcImpact |-> 1200, altcoinImpact |-> 800]
        /\ input <= 35000 => output = [btcImpact |-> 800, altcoinImpact |-> 1200]
        /\ (input > 35000 /\ input < 60000) =>
              output = [btcImpact |-> 1000, altcoinImpact |-> 1000]

\* C19 witness: the impacts at the boundary 60, 1.2 and 0.8.
C19_Witness ==
    /\ op = "assessMarketImpact"
    /\ input = 60000
    /\ output.btcImpact = 1200
    /\ output.altcoinImpact = 800

\* C20: the maturity is the first bucket matched from the top: >= 10B gives
\* (1.0, Established, in the code 'Establecido'), >= 1B (1.5, Mature,
\* 'Maduro'), >= 250M (2.0, Developing, 'En Desarrollo'), >= 50M (2.5,
\* Emerging, 'Emergente'), else (3.0, Speculative, 'Especulativo'); the score
\* is one of 1, 1.5, 2, 2.5, 3, never rises as marketCap grows, and 1e12
\* gives (1.0, Established).
C20_MaturityBuckets ==
    op = "calculateMarketMaturity" =>
        /\ output =
              (IF input >= 10000 THEN [score |-> Fin(1000), category |-> "Establecido"]
               ELSE IF input >= 1000 THEN [score |-> Fin(1500), category |-> "Maduro"]
               ELSE IF input >= 250 THEN [score |-> Fin(2000), category |-> "En Desarrollo"]
               ELSE IF input >= 50 THEN [score |-> Fin(2500), category |-> "Emergente"]
               ELSE [score |-> Fin(3000), category |-> "Especulativo"])
        /\ output.score.v \in {1000, 1500, 2000, 2500, 3000}
        /\ \A cap \in MarketCaps :
              cap <= input => calculateMarketMaturity(cap).score.v >= output.score.v
        /\ input = 1000000 => output = [score |-> Fin(1000), category |-> "Establecido"]

\* C20 witness: the market cap 1e12 of the tests, classified as established.
C20_Witness ==
    /\ op = "calculateMarketMaturity"
    /\ input = 1000000
    /\ output.score = Fin(1000)
    /\ output.category = "Establecido"

\* C21: the volume-health category comes from the unclamped ratio: >= 0.50
\* Exceptional ('Excepcional'), else >= 0.30 Strong ('Fuerte'), else >= 0.15
\* Healthy ('Saludable'), else Low ('Bajo'); a ratio above 0.50 is still
\* Exceptional with the score at 1, and the ratio 0.05 of marketCap 1e12 and
\* volume24h 5e10 is Low.
C21_VolumeCategoryFromUnclampedRatio ==
    op = "calculateVolumeHealth" =>
        /\ output.category =
              (IF JsGe(input, Fin(500)) THEN "Excepcional"
               ELSE IF JsGe(input, Fin(300)) THEN "Fuerte"
               ELSE IF JsGe(input, Fin(150)) THEN "Saludable"
               ELSE "Bajo")
        /\ JsGt(input, Fin(500)) =>
              (output.category = "Excepcional" /\ output.score = Fin(1000))
        /\ input = MoneyRatio(50000, 1000000) =>
              (input = Fin(50) /\ output.category = "Bajo")

\* C21 witness: a ratio of 0.80, above the ceiling, classified Exceptional
\* with the saturated score.
C21_Witness ==
    /\ op = "calculateVolumeHealth"
    /\ input = Fin(800)
    /\ output.category = "Excepcional"
    /\ output.score = Fin(1000)

\* C22: momentum is 1 when the series has no negative change; otherwise it is
\* (100 - 100/(1+RS))/100 with RS = average gain / average absolute loss,
\* which is 0 when there are losses and no gains; it always lies in [0, 1].
C22_MomentumIndicator ==
    op = "calculateMomentumIndicator" =>
        LET gains == SelectSeq(input, IsGain)
            losses == SelectSeq(input, IsLoss)
            avgGain == IF gains = <<>> THEN Fin(0)
                       ELSE JsDiv(SumSeq(gains), Fin(Len(gains) * 1000))
            avgLoss == JsDiv(JsNeg(SumSeq(losses)), Fin(Len(losses) * 1000))
            RS == JsDiv(avgGain, avgLoss)
        IN  /\ losses = <<>> => output = Fin(1000)
            /\ losses # <<>> =>
                  output = JsScale(JsSub(Fin(100000),
                                         JsDiv(Fin(100000), JsAdd(Fin(1000), RS))), 1, 100)
            /\ (losses # <<>> /\ gains = <<>>) => output = Fin(0)
            /\ IsFin(output)
            /\ output.v >= 0
            /\ output.v <= 1000

\* C22 witness: a gain of 5 against a loss of 5 gives RS = 1 and momentum 0.5.
C22_Witness ==
    /\ op = "calculateMomentumIndicator"
    /\ input = <<Pct(5), Pct(-5)>>
    /\ output = Fin(500)

\* C23: the volatility score is min(stdDev/25, 1) for the population standard
\* deviation of the series and always lies in [0, 1]; the category is High
\* ('Alta') when stdDev > 25, Medium ('Media') when 15 < stdDev <= 25, Low
\* ('Baja') otherwise; High holds exactly when the score is 1 with stdDev
\* above 25, and stdDev = 25 gives score 1 with category Medium.
C23_VolatilityScoreAndCategory ==
    op = "calculateVolatilityScore" =>
        LET n == Fin(Len(input) * 1000)
            mean == JsDiv(SumSeq(input), n)
            stdDev == MathSqrt(JsDiv(SumSquares(input, mean), n))
        IN  /\ output.score = MathMin(JsDiv(stdDev, Fin(25000)), Fin(1000))
            /\ IsFin(output.score)
            /\ output.score.v >= 0
            /\ output.score.v <= 1000
            /\ output.category =
                  (IF JsGt(stdDev, Fin(25000)) THEN "Alta"
                   ELSE IF JsGt(stdDev, Fin(15000)) THEN "Media"
                   ELSE "Baja")
            /\ output.category = "Alta" <=>
                  (output.score = Fin(1000) /\ JsGt(stdDev, Fin(25000)))
            /\ stdDev = Fin(25000) =>
                  (output.score = Fin(1000) /\ output.category = "Media")

\* C24: the risk score is 0.4 x volatility.score + 0.3 x (marketMaturity.score
\* / 3) + 0.3 x (1 - volumeHealth.score); the level is High ('Alto') above
\* 0.66, Medium ('Medio') above 0.33 up to 0.66, Low ('Bajo') otherwise; for
\* well-formed metrics the score lies in [0, 1] and the level is one of the
\* three.
C24_RiskLevel ==
    op = "calculateRiskLevel" =>
        /\ output.score =
              Fin((input.metrics.volatility.score.v * 40) \div 100
                  + ((input.metrics.marketMaturity.score.v \div 3) * 30) \div 100
                  + ((1000 - input.metrics.volumeHealth.score.v) * 30) \div 100)
        /\ output.score.v > 660 => output.level = "Alto"
        /\ (output.score.v > 330 /\ output.score.v <= 660) => output.level = "Medio"
        /\ output.score.v <= 330 => output.level = "Bajo"
        /\ output.score.v >= 0
        /\ output.score.v <= 1000
        /\ output.level \in {"Alto", "Medio", "Bajo"}

\* C24 witness: full volatility, a speculative market cap and no volume give
\* the risk score 1 and the level High.
C24_Witness ==
    /\ op = "calculateRiskLevel"
    /\ input.metrics.volatility.score = Fin(1000)
    /\ input.metrics.marketMaturity.score = Fin(3000)
    /\ input.metrics.volumeHealth.score = Fin(0)
    /\ output = [level |-> "Alto", score |-> Fin(1000)]

\* C25: for every dominance there is exactly one recommendation, the one of
\* the phase of the same DominanceState: btc_dominance BTC_FOCUS,
\* altcoin_season ALT_FOCUS, transition MIXED, accumulation CONSERVATIVE.
C25_RecommendationMatchesPhase ==
    op = "analyzeMarketCycle" =>
        /\ Len(output.recommendations) = 1
        /\ output.phase.name = "btc_dominance" =>
              output.recommendations[1].type = "BTC_FOCUS"
        /\ output.phase.name = "altcoin_season" =>
              output.recommendations[1].type = "ALT_FOCUS"
        /\ output.phase.name = "transition" =>
              output.recommendations[1].type = "MIXED"
        /\ output.phase.name = "accumulation" =>
              output.recommendations[1].type = "CONSERVATIVE"
        /\ output.phase.name \in
              {"btc_dominance", "altcoin_season", "transition", "accumulation"}

\* C25 witness: a dominance of 40 analysed as a transition with the MIXED
\* recommendation.
C25_Witness ==
    /\ op = "analyzeMarketCycle"
    /\ input = 40000
    /\ output.phase.name = "transition"
    /\ output.recommendations = <<[type |-> "MIXED", confidence |-> "Media"]>>

\* C27: in every DominanceState btcImpact is 1.2 exactly in phase
\* btc_dominance, 0.8 exactly in phase altcoin_season, and both impacts are
\* 1.0 exactly in the phases transition and accumulation, where the
\* adjustedScore of every asset equals its investmentScore.
C27_PhaseAndImpactAgree ==
    op = "adjustForBTCDominance" =>
        LET state == output.btcDominance
            neutral == state.phase.name \in {"transition", "accumulation"}
        IN  /\ state.impact.btcImpact = 1200 <=> state.phase.name = "btc_dominance"
            /\ state.impact.btcImpact = 800 <=> state.phase.name = "altcoin_season"
            /\ (state.impact.btcImpact = 1000 /\ state.impact.altcoinImpact = 1000)
                  <=> neutral
            /\ neutral => output.adjustedScore = input.analysis.investmentScore

\* C27 witness: an asset adjusted in the accumulation phase keeps its score.
C27_Witness ==
    /\ op = "adjustForBTCDominance"
    /\ input.dominance = 50000
    /\ output.btcDominance.phase.name = "accumulation"
    /\ output.btcDominance.impact = [btcImpact |-> 1000, altcoinImpact |-> 1000]
    /\ input.analysis.investmentScore = Fin(7500)
    /\ output.adjustedScore = Fin(7500)

\* C26: the value adjustForBTCDominance returns has every field of the base
\* analysis unchanged, the DominanceState it was given attached unchanged,
\* and adjustedScore as the only other field.
C26_AdjustKeepsBaseAnalysis ==
    op = "adjustForBTCDominance" =>
        /\ DOMAIN output = DOMAIN input.analysis \cup {"btcDominance", "adjustedScore"}
        /\ {"basic", "metrics", "performance", "investmentScore", "riskLevel",
             "potentialReturn", "isOnCoinbase"} \subseteq DOMAIN input.analysis
        /\ \A field \in DOMAIN input.analysis : output[field] = input.analysis[field]
        /\ output.btcDominance = MarketCycle(input.dominance)

\* C26 witness: BTC adjusted under dominance 65: the score is raised in
\* adjustedScore and investmentScore is the one of the base analysis.
C26_Witness ==
    /\ op = "adjustForBTCDominance"
    /\ input.analysis.basic.symbol = "BTC"
    /\ input.dominance = 65000
    /\ input.analysis.investmentScore = Fin(7500)
    /\ output.investmentScore = Fin(7500)
    /\ output.adjustedScore = Fin(9000)

\* C29: for every analysis of a snapshot with marketCap > 0 the adjustedScore
\* lies between 0.8 x investmentScore and 1.2 x investmentScore, hence in
\* [0.8, 12].
C29_AdjustedScoreRange ==
    (op = "adjustForBTCDominance" /\ input.analysis.basic.marketCap > 0) =>
        /\ IsFin(output.adjustedScore)
        /\ JsGe(output.adjustedScore, JsScale(input.analysis.investmentScore, 8, 10))
        /\ JsGe(JsScale(input.analysis.investmentScore, 12, 10), output.adjustedScore)
        /\ JsGe(output.adjustedScore, Fin(800))
        /\ JsGe(Fin(12000), output.adjustedScore)

\* C28: analyzeToken resolves only if both the quotes request and the
\* dominance analysis succeeded, in whichever order they answered; every
\* value it resolves with carries the btcDominance it got and an
\* adjustedScore, and there is no value without a resolution.
C28_AnalyzeTokenAllOrNothing ==
    /\ tok.state = "resolved" =>
          /\ tok.quote = "ok" /\ tok.dom = "ok"
          /\ Len(tok.value) = 1
          /\ {"btcDominance", "adjustedScore"} \subseteq DOMAIN tok.value[1]
          /\ tok.value[1].btcDominance = tok.cycle[1]
    /\ tok.value # <<>> => tok.state = "resolved"
    /\ (tok.quote = "error" \/ tok.dom = "error") => tok.state = "rejected"

\* C28 witness: the user's request resolved with an adjusted analysis.
C28_Witness ==
    /\ pc = "analyzed"
    /\ tok.caller = "user"
    /\ tok.state = "resolved"
    /\ tok.value[1].btcDominance.currentDominance = 65000
    /\ tok.value[1].adjustedScore # tok.value[1].investmentScore

====
